---- MODULE Spec2Model ----
(***************************************************************************)
(* The chat component MedicalChat (src/components/chat/MedicalChat.tsx).   *)
(*                                                                         *)
(* A React function component keeps its state in useState cells.  A        *)
(* setter (setMessages, setInputMessage, setIsLoading) updates the cell;   *)
(* the handlers of a render (sendMessage, handleKeyPress, clearChat) are   *)
(* closures that read the values the cells had when that render ran.  The  *)
(* model therefore has every cell twice: the cell itself (messages,        *)
(* inputMessage, isLoading) and the value the handlers of the latest       *)
(* render see (rMessages, rInputMessage, rIsLoading).  Render copies the   *)
(* first to the second.  Setters called with an updater function           *)
(* (prev => [...prev, m]) act on the cell, not on the rendered value.      *)
(*                                                                         *)
(* A text is a sequence of characters; a fixed literal of the source is a  *)
(* one-token sequence.  A Message is modelled by its role and content: id  *)
(* and timestamp are read by no handler (the id is only the React key).    *)
(***************************************************************************)
EXTENDS Integers, Sequences, FiniteSets, TLC

VARIABLES
    messages,       \* useState cell, line 17
    inputMessage,   \* useState cell, line 42
    isLoading,      \* useState cell, line 43
    rMessages,      \* messages as captured by the handlers of the latest render
    rInputMessage,  \* inputMessage as captured by the latest render
    rIsLoading,     \* isLoading as captured by the latest render
    calls,          \* sendMessage invocations suspended at an await (lines 76, 87)
    nSends,         \* number of sendMessage invocations that passed the guard
    pending,        \* state updates queued since the latest render
    last,           \* the handler or continuation that ran last, and how it ended
    cleared,        \* ids of the calls that were in flight at some clearChat
    inv,            \* the invocation of the API route handler being served
    requests        \* number of requests of the component the handler received

vars == <<messages, inputMessage, isLoading, rMessages, rInputMessage,
          rIsLoading, calls, nSends, pending, last, cleared, inv, requests>>

hvars == <<inv, requests>>

cvars == <<messages, inputMessage, isLoading, rMessages, rInputMessage,
           rIsLoading, calls, nSends, pending, last, cleared>>

cells == <<messages, inputMessage, isLoading>>

rendered == <<rMessages, rInputMessage, rIsLoading>>

(* ------------------------------ bounds -------------------------------- *)

MaxSends == 2

MaxInFlight == 2

MaxLiveSends == 1

\* how many queued updates a handler or continuation may run ahead of the render
MaxStale == 1
MaxRelaySends == 1

(* ------------------------------- texts -------------------------------- *)

SP == " "

Texts == { <<>>, <<SP>>, <<"h">> }

Replies == { <<"r">> }

WelcomeText == <<"**Welcome to Your AI Medical Assistant!** ...">>

WelcomeBackText == <<"**Welcome Back!** ...">>

ApologyText == <<"I apologize, but I'm having trouble responding right now. Please try again in a moment.">>

Statuses == {200, 400, 401, 405, 429, 500}

RECURSIVE trimStart(_)
trimStart(s) ==
    IF s # <<>> /\ Head(s) = SP THEN trimStart(Tail(s)) ELSE s

RECURSIVE trimEnd(_)
trimEnd(s) ==
    IF s # <<>> /\ s[Len(s)] = SP THEN trimEnd(SubSeq(s, 1, Len(s) - 1)) ELSE s

trim(s) == trimEnd(trimStart(s))

(* ------------------------------ messages ------------------------------ *)

Message(role, content) == [role |-> role, content |-> content]

WelcomeMessage == Message("assistant", WelcomeText)

WelcomeBackMessage == Message("assistant", WelcomeBackText)

\* Array.prototype.slice(-k): the last k elements, all of them when fewer.
sliceLast(msgs, k) ==
    IF Len(msgs) <= k THEN msgs ELSE SubSeq(msgs, Len(msgs) - k + 1, Len(msgs))

HistoryWindow == 10

\* Mutant: messages.slice(-10, -1), as if the newest entry were the user Turn
\* just appended.
conversationHistory_DropsNewest(msgs) ==
    [i \in 1..(Len(sliceLast(msgs, HistoryWindow)) - 1) |->
        [role |-> sliceLast(msgs, HistoryWindow)[i].role,
         content |-> sliceLast(msgs, HistoryWindow)[i].content]]

\* messages.slice(-10).map(msg => ({role, content})), on the rendered messages
conversationHistory(msgs) ==
    [i \in 1..Len(sliceLast(msgs, HistoryWindow)) |->
        [role |-> sliceLast(msgs, HistoryWindow)[i].role,
         content |-> sliceLast(msgs, HistoryWindow)[i].content]]

(* --------------------------- the argument ----------------------------- *)

\* sendMessage(messageText?): absent (Enter key), a string (quick action),
\* or the click event the Send button's onClick passes.
Undefined == [kind |-> "undefined", text |-> <<>>]

ClickEvent == [kind |-> "event", text |-> <<>>]

Str(t) == [kind |-> "string", text |-> t]

\* messageText || inputMessage: undefined and "" are falsy
textToSend(messageText, input) ==
    IF messageText.kind = "event" THEN messageText
    ELSE IF messageText.kind = "string" /\ messageText.text # <<>> THEN messageText
    ELSE Str(input)

\* what ran last: the trigger or continuation, the call it belongs to, the text
\* sendMessage computed (textToSend), how it ended, and the HTTP status it read
Last(op, id, arg, outcome, status) ==
    [op |-> op, id |-> id, arg |-> arg, outcome |-> outcome, status |-> status]

Triggers == {"handleKeyPress", "SendButton", "QuickAction"}

(* ------------------------- the API route handler ----------------------- *)
(* The handler of src/unnamed/part_000 (the route /api/chat/medical).  An     *)
(* invocation is a record: the request with what the environment holds for  *)
(* it (session, OPENAI_API_KEY), the position of the handler, the prompt it  *)
(* built, the number of openai.chat.completions.create calls it made and    *)
(* the responses it wrote with res.status(..).json(..).                     *)

NoRequest ==
    [method |-> "none", session |-> FALSE, message |-> Undefined,
     conversationHistory |-> <<>>, apiKey |-> FALSE]

NoOutcome == [kind |-> "none", choices |-> <<>>, isError |-> FALSE, message |-> <<>>]

Idle ==
    [for |-> 0, pc |-> "idle", req |-> NoRequest, prompt |-> <<>>,
     remoteCalls |-> 0, remote |-> NoOutcome, responses |-> <<>>]

Methods == {"GET", "POST"}

MEDICAL_SYSTEM_PROMPT == <<"You are a compassionate and knowledgeable medical AI assistant. ...">>

\* !message, !aiResponse: undefined, null and "" are falsy
truthy(v) == v.kind = "string" /\ v.text # <<>>

\* a request body's message: absent or a string
BodyMessages == {Undefined} \cup {Str(t) : t \in Texts}

\* conversationHistory of a request body; an entry may carry more than
\* role and content
BodyHistories ==
    { <<>>,
      <<[role |-> "assistant", content |-> <<"w">>]>>,
      <<[role |-> "user", content |-> <<"h">>, id |-> "1"],
        [role |-> "assistant", content |-> <<"r">>, id |-> "2"]>> }

Requests ==
    [method : Methods, session : BOOLEAN, message : BodyMessages,
     conversationHistory : BodyHistories, apiKey : BOOLEAN]

\* what openai.chat.completions.create settles with: a completion with its
\* choices (the content of each, absent or a string) or a thrown value with
\* its message (a sequence of words) that is or is not an Error
Completion(choices) ==
    [kind |-> "completion", choices |-> choices, isError |-> FALSE, message |-> <<>>]

Thrown(isError, message) ==
    [kind |-> "error", choices |-> <<>>, isError |-> isError, message |-> message]

RemoteOutcomes ==
    { Completion(<<>>), Completion(<<Undefined>>), Completion(<<Str(<<>>)>>),
      Completion(<<Str(<<"r">>)>>), Completion(<<Str(<<"r">>), Str(<<>>)>>),
      Completion(<<Undefined, Str(<<"r">>)>>),
      Thrown(TRUE, <<"Incorrect", "API key", "provided">>),
      Thrown(TRUE, <<"You", "exceeded", "your", "quota">>),
      Thrown(TRUE, <<"API key", "quota">>),
      Thrown(TRUE, <<"Connection", "error">>),
      Thrown(FALSE, <<"API key">>) }

\* String.prototype.includes, on words
includes(message, word) == \E i \in 1..Len(message) : message[i] = word

Response(status, message) == [status |-> status, message |-> message]

\* Mutant: the new message is put before the history.
buildPrompt_MessageBeforeHistory(message, history) ==
    <<[role |-> "system", content |-> MEDICAL_SYSTEM_PROMPT]>>
    \o <<[role |-> "user", content |-> message.text]>>
    \o [i \in 1..Len(history) |->
          [role |-> history[i].role, content |-> history[i].content]]

\* lines 85-92: the system prompt, the history projected, the new message
buildPrompt(message, history) ==
    <<[role |-> "system", content |-> MEDICAL_SYSTEM_PROMPT]>>
    \o [i \in 1..Len(history) |->
          [role |-> history[i].role, content |-> history[i].content]]
    \o <<[role |-> "user", content |-> message.text]>>

\* completion.choices[0]?.message?.content
aiResponse(choices) == IF choices = <<>> THEN Undefined ELSE choices[1]

\* Mutant: the quota test comes before the API key test.
catchBlock_QuotaFirst(error) ==
    IF error.isError /\ includes(error.message, "quota")
    THEN <<Response(429, <<"API quota exceeded">>)>>
    ELSE IF error.isError /\ includes(error.message, "API key")
    THEN <<Response(401, <<"Invalid OpenAI API key">>)>>
    ELSE <<Response(500, <<"Failed to get AI response. Please try again later.">>)>>

\* the catch block, lines 114-129: the responses it writes
catchBlock(error) ==
    IF error.isError /\ includes(error.message, "API key")
    THEN <<Response(401, <<"Invalid OpenAI API key">>)>>
    ELSE IF error.isError /\ includes(error.message, "quota")
    THEN <<Response(429, <<"API quota exceeded">>)>>
    ELSE <<Response(500, <<"Failed to get AI response. Please try again later.">>)>>

\* the route is called: lines 62-63
Receive(for, req) ==
    /\ inv.pc = "idle"
    /\ inv' = [Idle EXCEPT !.for = for, !.pc = "start", !.req = req]

\* Mutant: the session is not checked.
handlerChecks_NoSessionCheck ==
    /\ inv.pc = "start"
    /\ inv' =
         IF inv.req.method # "POST"
         THEN [inv EXCEPT !.pc = "done",
                          !.responses = <<Response(405, <<"Method not allowed">>)>>]
         ELSE IF ~truthy(inv.req.message)
         THEN [inv EXCEPT !.pc = "done",
                          !.responses = <<Response(400, <<"Message is required">>)>>]
         ELSE IF ~inv.req.apiKey
         THEN [inv EXCEPT !.pc = "done",
                          !.responses = <<Response(500, <<"OpenAI API key not configured">>)>>]
         ELSE [inv EXCEPT !.pc = "remote",
                          !.prompt = buildPrompt(inv.req.message, inv.req.conversationHistory),
                          !.remoteCalls = inv.remoteCalls + 1]

\* Mutant: the API key is checked before the message.
handlerChecks_KeyBeforeMessage ==
    /\ inv.pc = "start"
    /\ inv' =
         IF inv.req.method # "POST"
         THEN [inv EXCEPT !.pc = "done",
                          !.responses = <<Response(405, <<"Method not allowed">>)>>]
         ELSE IF ~inv.req.session
         THEN [inv EXCEPT !.pc = "done",
                          !.responses = <<Response(401, <<"Unauthorized">>)>>]
         ELSE IF ~inv.req.apiKey
         THEN [inv EXCEPT !.pc = "done",
                          !.responses = <<Response(500, <<"OpenAI API key not configured">>)>>]
         ELSE IF ~truthy(inv.req.message)
         THEN [inv EXCEPT !.pc = "done",
                          !.responses = <<Response(400, <<"Message is required">>)>>]
         ELSE [inv EXCEPT !.pc = "remote",
                          !.prompt = buildPrompt(inv.req.message, inv.req.conversationHistory),
                          !.remoteCalls = inv.remoteCalls + 1]

\* lines 63-101: the checks, then the prompt and the call of the remote
\* completion capability (getServerSession's answer is req.session)
handlerChecks ==
    /\ inv.pc = "start"
    /\ inv' =
         IF inv.req.method # "POST"
         THEN [inv EXCEPT !.pc = "done",
                          !.responses = <<Response(405, <<"Method not allowed">>)>>]
         ELSE IF ~inv.req.session
         THEN [inv EXCEPT !.pc = "done",
                          !.responses = <<Response(401, <<"Unauthorized">>)>>]
         ELSE IF ~truthy(inv.req.message)
         THEN [inv EXCEPT !.pc = "done",
                          !.responses = <<Response(400, <<"Message is required">>)>>]
         ELSE IF ~inv.req.apiKey
         THEN [inv EXCEPT !.pc = "done",
                          !.responses = <<Response(500, <<"OpenAI API key not configured">>)>>]
         ELSE [inv EXCEPT !.pc = "remote",
                          !.prompt = buildPrompt(inv.req.message, inv.req.conversationHistory),
                          !.remoteCalls = inv.remoteCalls + 1]

\* Mutant: the test of !aiResponse is missing.
handlerSettles_NoEmptyTest(outcome) ==
    /\ inv.pc = "remote"
    /\ inv' =
         [inv EXCEPT
            !.pc = "done",
            !.remote = outcome,
            !.responses =
               IF outcome.kind = "error" THEN catchBlock(outcome)
               ELSE <<Response(200, aiResponse(outcome.choices).text)>>]

\* Mutant: a failed remote call is attempted once more.
handlerSettles_Retries(outcome) ==
    /\ inv.pc = "remote"
    /\ inv' =
         IF outcome.kind = "error" /\ inv.remoteCalls < 2
         THEN [inv EXCEPT !.remoteCalls = inv.remoteCalls + 1]
         ELSE [inv EXCEPT
                 !.pc = "done",
                 !.remote = outcome,
                 !.responses =
                    IF outcome.kind = "error" THEN catchBlock(outcome)
                    ELSE IF ~truthy(aiResponse(outcome.choices))
                    THEN catchBlock(Thrown(TRUE, <<"No response from OpenAI">>))
                    ELSE <<Response(200, aiResponse(outcome.choices).text)>>]

\* lines 94-129: the remote call settles; its text is sent, or the catch
\* block answers
handlerSettles(outcome) ==
    /\ inv.pc = "remote"
    /\ inv' =
         [inv EXCEPT
            !.pc = "done",
            !.remote = outcome,
            !.responses =
               IF outcome.kind = "error" THEN catchBlock(outcome)
               ELSE IF ~truthy(aiResponse(outcome.choices))
               THEN catchBlock(Thrown(TRUE, <<"No response from OpenAI">>))
               ELSE <<Response(200, aiResponse(outcome.choices).text)>>]

\* the invocation is over
handlerEnds ==
    /\ inv.pc = "done"
    /\ inv' = Idle

(* -------------------------------- Init -------------------------------- *)

Init ==
    /\ messages = <<WelcomeMessage>>
    /\ inputMessage = <<>>
    /\ isLoading = FALSE
    /\ rMessages = <<WelcomeMessage>>
    /\ rInputMessage = <<>>
    /\ rIsLoading = FALSE
    /\ calls = {}
    /\ nSends = 0
    /\ pending = 0
    /\ last = Last("mount", 0, Undefined, "none", 0)
    /\ cleared = {}
    /\ inv = Idle
    /\ requests = <<>>

(* ------------------------------ actions ------------------------------- *)

\* React re-renders: the handlers now close over the current cells.
Render ==
    /\ pending > 0
    /\ rMessages' = messages
    /\ rInputMessage' = inputMessage
    /\ rIsLoading' = isLoading
    /\ pending' = 0
    /\ last' = Last("Render", 0, Undefined, "none", 0)
    /\ UNCHANGED <<cells, calls, nSends>>

\* Mutant: the guard tests !textToSend instead of !textToSend.trim().
sendMessage_NoTrim(trigger, messageText, cap) ==
    LET text == textToSend(messageText, rInputMessage) IN
    IF text.kind = "event"
    THEN /\ last' = Last(trigger, 0, text, "threw", 0)
         /\ UNCHANGED <<cells, rendered, calls, nSends, pending, requests>>
    ELSE IF text.text = <<>> \/ rIsLoading
    THEN /\ last' = Last(trigger, 0, text, "returned", 0)
         /\ UNCHANGED <<cells, rendered, calls, nSends, pending, requests>>
    ELSE /\ nSends < cap
         /\ Cardinality(calls) < MaxInFlight
         /\ messages' = Append(messages, Message("user", text.text))
         /\ inputMessage' = <<>>
         /\ isLoading' = TRUE
         /\ calls' = calls \cup
                {[id |-> nSends + 1,
                  message |-> text.text,
                  conversationHistory |-> conversationHistory(rMessages),
                  pc |-> "fetch"]}
         /\ requests' = Append(requests, nSends + 1)
         /\ nSends' = nSends + 1
         /\ pending' = pending + 1
         /\ last' = Last(trigger, nSends + 1, text, "sent", 0)
         /\ UNCHANGED rendered

\* The synchronous part of sendMessage, up to the first await (lines 54-85).
sendMessage(trigger, messageText, cap) ==
    LET text == textToSend(messageText, rInputMessage) IN
    IF text.kind = "event"
    THEN \* textToSend.trim is not a function: the call throws before the try
         /\ last' = Last(trigger, 0, text, "threw", 0)
         /\ UNCHANGED <<cells, rendered, calls, nSends, pending, requests>>
    ELSE IF trim(text.text) = <<>> \/ rIsLoading
    THEN /\ last' = Last(trigger, 0, text, "returned", 0)
         /\ UNCHANGED <<cells, rendered, calls, nSends, pending, requests>>
    ELSE /\ nSends < cap
         /\ Cardinality(calls) < MaxInFlight
         /\ messages' = Append(messages, Message("user", text.text))
         /\ inputMessage' = <<>>
         /\ isLoading' = TRUE
         /\ calls' = calls \cup
                {[id |-> nSends + 1,
                  message |-> text.text,
                  conversationHistory |-> conversationHistory(rMessages),
                  pc |-> "fetch"]}
         /\ requests' = Append(requests, nSends + 1)
         /\ nSends' = nSends + 1
         /\ pending' = pending + 1
         /\ last' = Last(trigger, nSends + 1, text, "sent", 0)
         /\ UNCHANGED rendered

\* textarea onChange; the textarea is disabled while the rendered isLoading is true
onChange(t) ==
    /\ pending <= MaxStale
    /\ ~rIsLoading
    /\ inputMessage' = t
    /\ pending' = pending + 1
    /\ last' = Last("onChange", 0, Undefined, "none", 0)
    /\ UNCHANGED <<messages, isLoading, rendered, calls, nSends>>

\* Enter without Shift in the textarea
handleKeyPress(cap) ==
    /\ pending <= MaxStale
    /\ ~rIsLoading
    /\ sendMessage("handleKeyPress", Undefined, cap)

\* onClick={sendMessage}: the handler receives the click event as messageText
SendButton(cap) ==
    /\ pending <= MaxStale
    /\ trim(rInputMessage) # <<>>
    /\ ~rIsLoading
    /\ sendMessage("SendButton", ClickEvent, cap)

\* QuickActions is rendered while the rendered conversation has at most one
\* message; what it does with its disabled prop is not in the source.
QuickAction(t, cap) ==
    /\ pending <= MaxStale
    /\ Len(rMessages) <= 1
    /\ sendMessage("QuickAction", Str(t), cap)

\* Mutant: clearChat also calls setIsLoading(false).
clearChat_ResetsFlag ==
    /\ pending <= MaxStale
    /\ messages' = <<WelcomeBackMessage>>
    /\ isLoading' = FALSE
    /\ pending' = pending + 1
    /\ last' = Last("clearChat", 0, Undefined, "none", 0)
    /\ UNCHANGED <<inputMessage, rendered, calls, nSends>>

clearChat ==
    /\ pending <= MaxStale
    /\ messages' = <<WelcomeBackMessage>>
    /\ pending' = pending + 1
    /\ last' = Last("clearChat", 0, Undefined, "none", 0)
    /\ UNCHANGED <<inputMessage, isLoading, rendered, calls, nSends>>

\* Mutant: setMessages([...messages, aiMessage]) on the captured messages
\* instead of the updater function prev => [...prev, aiMessage].
resolve_AppendsToCaptured(c, content, outcome, status) ==
    /\ messages' = Append(rMessages, Message("assistant", content))
    /\ isLoading' = FALSE
    /\ calls' = calls \ {c}
    /\ pending' = pending + 1
    /\ last' = Last("resolve", c.id, Undefined, outcome, status)
    /\ UNCHANGED <<inputMessage, rendered, nSends>>

\* Mutant: setIsLoading(false) at the end of the try instead of in a finally.
resolve_NoFinally(c, content, outcome, status) ==
    /\ messages' = Append(messages, Message("assistant", content))
    /\ isLoading' = (IF outcome = "ok" THEN FALSE ELSE isLoading)
    /\ calls' = calls \ {c}
    /\ pending' = pending + 1
    /\ last' = Last("resolve", c.id, Undefined, outcome, status)
    /\ UNCHANGED <<inputMessage, rendered, nSends>>

\* catch/finally or the end of the try: one setMessages, then setIsLoading(false)
resolve(c, content, outcome, status) ==
    /\ messages' = Append(messages, Message("assistant", content))
    /\ isLoading' = FALSE
    /\ calls' = calls \ {c}
    /\ pending' = pending + 1
    /\ last' = Last("resolve", c.id, Undefined, outcome, status)
    /\ UNCHANGED <<inputMessage, rendered, nSends>>

\* Mutant: the fetch is awaited outside the try, so a rejection ends the
\* invocation with nothing appended and the flag left set.
FetchSettles_NoCatch(c) ==
    /\ c \in calls
    /\ c.pc = "fetch"
    /\ \/ /\ calls' = calls \ {c}
          /\ last' = Last("resolve", c.id, Undefined, "network", 0)
          /\ UNCHANGED <<cells, rendered, nSends, pending>>
       \/ /\ calls' = (calls \ {c}) \cup {[c EXCEPT !.pc = "json"]}
          /\ last' = Last("fetch", c.id, Undefined, "response", 0)
          /\ UNCHANGED <<cells, rendered, nSends, pending>>

\* await fetch(...) settles: it rejects (network error) or yields a response
FetchSettles(c) ==
    /\ c \in calls
    /\ c.pc = "fetch"
    /\ \/ resolve(c, ApologyText, "network", 0)
       \/ /\ calls' = (calls \ {c}) \cup {[c EXCEPT !.pc = "json"]}
          /\ last' = Last("fetch", c.id, Undefined, "response", 0)
          /\ UNCHANGED <<cells, rendered, nSends, pending>>

\* Mutant: the !response.ok test comes after setMessages(aiMessage), so a
\* non-OK response appends data.message and then the apology.
JsonSettles_ChecksOkLate(c) ==
    /\ c \in calls
    /\ c.pc = "json"
    /\ \E status \in Statuses, parsed \in BOOLEAN, reply \in Replies :
          IF ~parsed THEN resolve(c, ApologyText, "parse", status)
          ELSE IF status # 200
          THEN /\ messages' = Append(Append(messages, Message("assistant", reply)),
                                     Message("assistant", ApologyText))
               /\ isLoading' = FALSE
               /\ calls' = calls \ {c}
               /\ pending' = pending + 1
               /\ last' = Last("resolve", c.id, Undefined, "status", status)
               /\ UNCHANGED <<inputMessage, rendered, nSends>>
          ELSE resolve(c, reply, "ok", status)

\* await response.json() settles: it rejects (unparsable body) or yields data;
\* then !response.ok throws into the catch, else data.message is appended
JsonSettles(c) ==
    /\ c \in calls
    /\ c.pc = "json"
    /\ \E status \in Statuses, parsed \in BOOLEAN, reply \in Replies :
          IF ~parsed THEN resolve(c, ApologyText, "parse", status)
          ELSE IF status # 200 THEN resolve(c, ApologyText, "status", status)
          ELSE resolve(c, reply, "ok", status)

Ids(cs) == {c.id : c \in cs}

\* The component alone: the relay's answer is any response or failure.
Step(cap) ==
    \/ Render /\ UNCHANGED <<cleared, hvars>>
    \/ \E t \in Texts : onChange(t) /\ UNCHANGED <<cleared, hvars>>
    \/ handleKeyPress(cap) /\ UNCHANGED <<cleared, inv>>
    \/ SendButton(cap) /\ UNCHANGED <<cleared, inv>>
    \/ \E t \in Texts : QuickAction(t, cap) /\ UNCHANGED <<cleared, inv>>
    \/ clearChat /\ cleared' = cleared \cup {c.id : c \in calls} /\ UNCHANGED hvars
    \/ \E c \in calls : FetchSettles(c) /\ UNCHANGED <<cleared, hvars>>
    \/ \E c \in calls : JsonSettles(c) /\ UNCHANGED <<cleared, hvars>>

Next == Step(MaxSends)

Spec == Init /\ [][Next]_vars

\* Every issued relay call eventually returns or throws: each await settles.
LiveNext == Step(MaxLiveSends)

Settles(id) ==
    \E c \in calls :
        c.id = id /\ (FetchSettles(c) \/ JsonSettles(c)) /\ UNCHANGED <<cleared, hvars>>

LiveSpec ==
    /\ Init
    /\ [][LiveNext]_vars
    /\ \A id \in 1..MaxLiveSends : WF_vars(Settles(id))

\* The handler alone, called by any client with any request.
HandlerNext ==
    \/ \E req \in Requests : Receive(0, req) /\ UNCHANGED <<cvars, requests>>
    \/ handlerChecks /\ UNCHANGED <<cvars, requests>>
    \/ \E outcome \in RemoteOutcomes : handlerSettles(outcome) /\ UNCHANGED <<cvars, requests>>
    \/ handlerEnds /\ UNCHANGED <<cvars, requests>>

HandlerSpec == Init /\ [][HandlerNext]_vars

\* The component and the handler together. The handler keeps nothing from
\* one invocation to the next, so its invocations are taken one at a time.

\* the request of call c reaches the handler; the session and the API key
\* are whatever the deployment has at that time
RelayDeliver(c) ==
    /\ c \in calls
    /\ c.pc = "fetch"
    /\ \E session \in BOOLEAN, apiKey \in BOOLEAN :
          Receive(c.id, [method |-> "POST",
                         session |-> session,
                         message |-> Str(c.message),
                         conversationHistory |-> c.conversationHistory,
                         apiKey |-> apiKey])
    /\ UNCHANGED <<cvars, requests>>

\* the fetch of call c rejects, before or after its request was received
RelayFetchFails(c) ==
    /\ FetchSettles(c)
    /\ last'.outcome = "network"
    /\ UNCHANGED <<cleared, hvars>>

\* the handler's response reaches the fetch of call c
RelayResponse(c) ==
    /\ inv.for = c.id
    /\ inv.pc = "done"
    /\ FetchSettles(c)
    /\ last'.op = "fetch"
    /\ UNCHANGED <<cleared, hvars>>

\* response.json() yields the handler's body, response.ok its status
RelayJson(c) ==
    /\ inv.for = c.id
    /\ inv.pc = "done"
    /\ JsonSettles(c)
    /\ last'.outcome # "parse"
    /\ last'.status = inv.responses[1].status
    /\ last'.status = 200 =>
          messages'[Len(messages')].content = inv.responses[1].message
    /\ inv' = Idle
    /\ UNCHANGED <<cleared, requests>>

\* the handler returns after a response that nobody waits for any more
RelayEnds ==
    /\ inv.for \notin Ids(calls)
    /\ handlerEnds
    /\ UNCHANGED <<cvars, requests>>

RelayNext ==
    \/ Render /\ UNCHANGED <<cleared, hvars>>
    \/ \E t \in Texts : onChange(t) /\ UNCHANGED <<cleared, hvars>>
    \/ handleKeyPress(MaxRelaySends) /\ UNCHANGED <<cleared, inv>>
    \/ SendButton(MaxRelaySends) /\ UNCHANGED <<cleared, inv>>
    \/ \E t \in Texts : QuickAction(t, MaxRelaySends) /\ UNCHANGED <<cleared, inv>>
    \/ clearChat /\ cleared' = cleared \cup {c.id : c \in calls} /\ UNCHANGED hvars
    \/ \E c \in calls : RelayDeliver(c)
    \/ handlerChecks /\ UNCHANGED <<cvars, requests>>
    \/ \E outcome \in RemoteOutcomes : handlerSettles(outcome) /\ UNCHANGED <<cvars, requests>>
    \/ \E c \in calls : RelayFetchFails(c)
    \/ \E c \in calls : RelayResponse(c)
    \/ \E c \in calls : RelayJson(c)
    \/ RelayEnds

RelaySpec == Init /\ [][RelayNext]_vars

(* ------------------------- vocabulary of the claims -------------------- *)

InFlight(id) == id \in Ids(calls)

\* the step is an invocation of sendMessage, by any of its three triggers
SendInvoked == last'.op \in Triggers

\* the step is an invocation of sendMessage that passed the guard of line 56
SendAccepted == nSends' = nSends + 1

\* the step is the resolution of a relay call (try/catch/finally, lines 93-112)
Resolved == \E c \in calls : c.id \notin Ids(calls')

AssistantTexts == Replies \cup {ApologyText}

(* ------------------------------- claims -------------------------------- *)

\* C1: in every reachable state at most one relay request is outstanding,
\* also when two sendMessage invocations run against the same render.
C1_AtMostOneOutstanding == Cardinality(calls) <= 1

\* C2: a sendMessage invocation made while the Pending Flag (the isLoading
\* cell) is true appends nothing, issues no request and leaves the input
\* text and the flag unchanged.
C2_SendWhilePendingIsNoOp ==
    [][(SendInvoked /\ isLoading) => UNCHANGED <<cells, calls, nSends>>]_vars

\* C3: the resolution of a relay call appends exactly one assistant Turn (the
\* reply or the apology) and nothing else; a call is resolved once, one call
\* per step, and an assistant Turn is appended only by a resolution.
C3_OneTurnPerCall ==
    [][ /\ \A c \in calls :
              c.id \notin Ids(calls') =>
                 /\ \E t \in AssistantTexts :
                       messages' = Append(messages, Message("assistant", t))
                 /\ Ids(calls') = Ids(calls) \ {c.id}
        /\ \A c \in calls' : c.id \in Ids(calls) \/ c.id = nSends + 1
        /\ ( /\ Len(messages') = Len(messages) + 1
             /\ messages'[Len(messages')].role = "assistant" ) => Resolved
      ]_vars

C3_Witness ==
    /\ nSends = 2
    /\ calls = {}
    /\ messages = <<WelcomeMessage, Message("user", <<"h">>),
                    Message("assistant", <<"r">>), Message("user", <<"h">>),
                    Message("assistant", ApologyText)>>

\* C4: the conversationHistory of an accepted sendMessage is the last
\* min(10, n) Turns of the conversation as it was before the new user Turn,
\* in order, projected to {role, content}.
C4_HistoryIsLastTenPrior ==
    [][SendAccepted =>
         \A c \in calls' :
            c.id = nSends + 1 =>
               /\ Len(c.conversationHistory) = IF Len(messages) < 10 THEN Len(messages) ELSE 10
               /\ \A i \in 1..Len(c.conversationHistory) :
                     LET m == messages[Len(messages) - Len(c.conversationHistory) + i] IN
                     c.conversationHistory[i] = [role |-> m.role, content |-> m.content]
      ]_vars

\* C5 as stated: from the conversation that holds only the welcome Turn, the
\* first accepted sendMessage sends a context window of length 0.
C5_FirstWindowIsEmpty ==
    [][(messages = <<WelcomeMessage>> /\ nSends = 0 /\ SendAccepted) =>
         \A c \in calls' : Len(c.conversationHistory) = 0]_vars

\* C5 as amended: from the conversation that holds only the welcome Turn, the
\* first accepted sendMessage sends a context window of length 1, the welcome
\* Turn projected to {role, content}.
C5_FirstWindowIsWelcome ==
    [][(messages = <<WelcomeMessage>> /\ nSends = 0 /\ SendAccepted) =>
         \A c \in calls' :
            c.conversationHistory = <<[role |-> "assistant", content |-> WelcomeText]>>]_vars

C5_Witness ==
    /\ nSends = 1
    /\ messages = <<WelcomeMessage, Message("user", <<"h">>)>>
    /\ \E c \in calls : c.id = 1 /\ Len(c.conversationHistory) = 1

\* C6: a sendMessage whose text (textToSend) is empty or only whitespace
\* changes nothing: conversation, Pending Flag and outstanding requests stay.
C6_BlankSendIsNoOp ==
    [][(SendInvoked /\ last'.arg.kind = "string" /\ trim(last'.arg.text) = <<>>) =>
         UNCHANGED <<cells, calls, nSends>>]_vars

C6_Witness ==
    /\ last.op \in Triggers
    /\ last.outcome = "returned"
    /\ last.arg = Str(<<SP>>)
    /\ ~rIsLoading
    /\ ~isLoading

\* C7: the Pending Flag only moves false -> true on an accepted sendMessage
\* and true -> false on a resolution, so accepted sends and resolutions
\* alternate.
C7_IdleSendingAlternate ==
    [][ /\ SendAccepted => (~isLoading /\ isLoading')
        /\ Resolved => (isLoading /\ ~isLoading')
        /\ (isLoading # isLoading') => (SendAccepted \/ Resolved)
      ]_vars

\* C8: when the relay call fails (a non-OK status, a network error, an
\* unparsable body) its resolution appends exactly one assistant Turn with
\* the one fixed apology text and the Pending Flag is false afterwards.
C8_FailureAppendsApology ==
    [][(Resolved /\ last'.op = "resolve" /\ last'.outcome \in {"status", "network", "parse"}) =>
          /\ messages' = Append(messages, Message("assistant", ApologyText))
          /\ isLoading' = FALSE
      ]_vars

C8_Witness ==
    /\ last.op = "resolve"
    /\ last.outcome = "status"
    /\ last.status = 429
    /\ messages[Len(messages)] = Message("assistant", ApologyText)
    /\ ~isLoading

\* C9: under LiveSpec every outstanding relay call is eventually resolved:
\* a state follows where it is no longer in flight, its result Turn is the
\* last of the conversation and the Pending Flag is false.
C9_EverySendResolves ==
    \A id \in 1..MaxLiveSends :
        InFlight(id) ~>
            ( /\ ~InFlight(id)
              /\ last.op = "resolve" /\ last.id = id
              /\ messages[Len(messages)].role = "assistant"
              /\ messages[Len(messages)].content \in AssistantTexts
              /\ ~isLoading )

C9_Witness ==
    /\ last.op = "resolve"
    /\ ~isLoading
    /\ calls = {}
    /\ Len(messages) = 2
    /\ messages[1] = WelcomeBackMessage
    /\ messages[2].role = "assistant"

\* C10: clearChat in any state leaves exactly one Turn, the assistant's
\* welcome-back Turn, and changes neither the Pending Flag nor the calls in
\* flight.
C10_ClearChatFrame ==
    [][last'.op = "clearChat" =>
          /\ Len(messages') = 1
          /\ messages'[1].role = "assistant"
          /\ messages'[1].content = WelcomeBackText
          /\ UNCHANGED <<isLoading, calls, inputMessage>>
      ]_vars

C10_Witness ==
    /\ last.op = "clearChat"
    /\ isLoading
    /\ calls # {}
    /\ messages = <<WelcomeBackMessage>>

\* C11: when clearChat was invoked while a relay call was in flight, the
\* resolution of that call leaves the conversation [welcome-back Turn,
\* assistant reply or apology], of length 2.
C11_StaleResultAfterClear ==
    [][\A c \in calls :
          (c.id \notin Ids(calls') /\ c.id \in cleared) =>
             \E t \in AssistantTexts :
                messages' = <<WelcomeBackMessage, Message("assistant", t)>>]_vars

\* C12: in every reachable state the Pending Flag is true if and only if a
\* relay request of the component is outstanding.
C12_FlagIffOutstanding == isLoading <=> (calls # {})

\* C13: every step other than clearChat leaves the Turn sequence unchanged or
\* extends it by exactly one Turn at the end.
C13_AppendOnly ==
    [][last'.op # "clearChat" =>
          \/ messages' = messages
          \/ /\ Len(messages') = Len(messages) + 1
             /\ SubSeq(messages', 1, Len(messages)) = messages]_vars

C13_Witness ==
    /\ Len(messages) = 3
    /\ messages[1] = WelcomeBackMessage
    /\ messages[2].role = "user"
    /\ messages[3].role = "assistant"
    /\ last.op = "resolve"

(* --------------------- claims about the route handler ------------------ *)

\* the invocation has answered
Answered == inv.pc = "done"

\* the remote completion has a first choice that carries non-empty text
HasText(outcome) ==
    /\ outcome.kind = "completion"
    /\ outcome.choices # <<>>
    /\ outcome.choices[1].kind = "string"
    /\ outcome.choices[1].text # <<>>

\* C14 as stated: the remote capability is invoked only for a request with
\* a session, a message and an API key; a request without a session is
\* answered 401 and no remote call is made for it.
C14_NoSessionIs401 ==
    /\ inv.remoteCalls > 0 =>
          inv.req.session /\ truthy(inv.req.message) /\ inv.req.apiKey
    /\ (Answered /\ ~inv.req.session) =>
          inv.responses = <<Response(401, <<"Unauthorized">>)>> /\ inv.remoteCalls = 0

\* C14 as amended: the remote capability is invoked only for a POST request
\* with a session, a message and an API key; a POST request without a
\* session is answered 401, any other request without a session 405, and no
\* remote call is made for either.
C14_RemoteOnlyAfterSession ==
    /\ inv.remoteCalls > 0 =>
          /\ inv.req.method = "POST"
          /\ inv.req.session /\ truthy(inv.req.message) /\ inv.req.apiKey
    /\ (Answered /\ ~inv.req.session) =>
          /\ inv.remoteCalls = 0
          /\ inv.remote = NoOutcome
          /\ inv.responses =
                IF inv.req.method = "POST"
                THEN <<Response(401, <<"Unauthorized">>)>>
                ELSE <<Response(405, <<"Method not allowed">>)>>

C14_Witness ==
    /\ Answered
    /\ inv.req.method = "POST"
    /\ ~inv.req.session
    /\ truthy(inv.req.message)
    /\ inv.req.apiKey
    /\ inv.responses[1].status = 401

\* C15: an authenticated POST without a message (absent or empty) is
\* answered 400, whether or not the API key is set; with a message and no
\* API key it is answered 500; each of these bodies is a message text.
C15_MessageThenKey ==
    (Answered /\ inv.req.method = "POST" /\ inv.req.session) =>
        /\ ~truthy(inv.req.message) =>
              inv.responses = <<Response(400, <<"Message is required">>)>>
        /\ (truthy(inv.req.message) /\ ~inv.req.apiKey) =>
              inv.responses = <<Response(500, <<"OpenAI API key not configured">>)>>
        /\ \A i \in 1..Len(inv.responses) :
              inv.responses[i].status # 200 => Len(inv.responses[i].message) > 0

C15_Witness ==
    /\ Answered
    /\ inv.req.method = "POST"
    /\ inv.req.session
    /\ inv.req.message = Str(<<>>)
    /\ ~inv.req.apiKey
    /\ inv.responses[1].status = 400

\* C16: a failed remote call gets exactly one response: 401 when the error
\* message names the API key (also when it names the quota too), 429 when
\* it names only the quota, 500 for every other failure.
C16_FailureClasses ==
    (Answered /\ inv.remote.kind = "error") =>
        /\ Len(inv.responses) = 1
        /\ inv.responses[1].status \in {401, 429, 500}
        /\ (inv.remote.isError /\ includes(inv.remote.message, "API key")) =>
              inv.responses[1].status = 401
        /\ ( /\ inv.remote.isError
             /\ includes(inv.remote.message, "quota")
             /\ ~includes(inv.remote.message, "API key") ) =>
              inv.responses[1].status = 429
        /\ ( \/ ~inv.remote.isError
             \/ /\ ~includes(inv.remote.message, "quota")
                /\ ~includes(inv.remote.message, "API key") ) =>
              inv.responses[1].status = 500

C16_Witness ==
    /\ Answered
    /\ inv.remote = Thrown(TRUE, <<"API key", "quota">>)
    /\ inv.responses = <<Response(401, <<"Invalid OpenAI API key">>)>>

\* C17: the handler answers 200 exactly when the remote call succeeded and
\* its first choice carries non-empty text, and the response message is that
\* text; a completion without such text is answered 500.
C17_OkIffText ==
    Answered =>
        /\ Len(inv.responses) = 1
        /\ (inv.responses[1].status = 200) <=> HasText(inv.remote)
        /\ HasText(inv.remote) =>
              inv.responses[1].message = inv.remote.choices[1].text
        /\ (inv.remote.kind = "completion" /\ ~HasText(inv.remote)) =>
              inv.responses[1].status = 500

C17_Witness ==
    /\ Answered
    /\ inv.remote = Completion(<<Undefined, Str(<<"r">>)>>)
    /\ inv.responses[1].status = 500

\* C18: the prompt of a request that reaches the remote call with a history
\* of n entries has n + 2 entries: the system instruction, the n entries in
\* order projected to {role, content}, the new message with role user.
C18_PromptShape ==
    inv.remoteCalls > 0 =>
        LET h == inv.req.conversationHistory
            n == Len(h)
        IN  /\ Len(inv.prompt) = n + 2
            /\ inv.prompt[1] = [role |-> "system", content |-> MEDICAL_SYSTEM_PROMPT]
            /\ \A i \in 1..n :
                  inv.prompt[i + 1] = [role |-> h[i].role, content |-> h[i].content]
            /\ inv.prompt[n + 2] = [role |-> "user", content |-> inv.req.message.text]

C18_Witness ==
    /\ inv.pc = "remote"
    /\ Len(inv.req.conversationHistory) = 2
    /\ Len(inv.prompt) = 4

(* ------------------ claims about component and handler ---------------- *)

\* the number of fetch calls made for the call id
Fetches(id) == Cardinality({i \in 1..Len(requests) : requests[i] = id})

\* C19: no retries: an invocation of the handler invokes the remote
\* completion at most once, and every accepted sendMessage issues exactly
\* one request, whether the call succeeds or fails.
C19_NoRetries ==
    /\ inv.remoteCalls <= 1
    /\ Len(requests) = nSends
    /\ \A id \in 1..nSends : Fetches(id) = 1

C19_Witness ==
    /\ inv.pc = "done"
    /\ inv.for = 1
    /\ inv.remote.kind = "error"
    /\ inv.remoteCalls = 1
    /\ Fetches(1) = 1

(* ---------------------- claims about the send triggers ----------------- *)

\* the text a trigger is meant to send: the quick action's text, else the
\* text of the textarea as rendered
Intended == IF last'.arg.kind = "event" THEN rInputMessage ELSE last'.arg.text

\* C20: in the Idle state with a non-blank text, each trigger (Enter, the
\* Send button, a quick action) makes sendMessage append exactly one user
\* Turn with that text and issue one request that carries it as message.
C20_EveryTriggerSends ==
    [][(/\ SendInvoked
        /\ ~isLoading /\ ~rIsLoading /\ calls = {}
        /\ trim(Intended) # <<>>)
       => /\ messages' = Append(messages, Message("user", Intended))
          /\ \E c \in calls' : calls' = {c} /\ c.message = Intended
          /\ requests' = Append(requests, nSends')]_vars

====
